---- MODULE Spec2Model ----
(***************************************************************************)
(* The OAuth-login pseudo-terminal bridge of openclaw-helper              *)
(* (setupWebSocket / handleOAuthLogin), modelled as a state machine.      *)
(*                                                                         *)
(* One connection is a WebSocket `ws`.  Every handler of the source is one *)
(* action; the async message handler is split at its two `await` points.  *)
(* The log `out` records every call of ws.send together with the value of  *)
(* ws.readyState === ws.OPEN at the moment of the call.                    *)
(***************************************************************************)
EXTENDS Integers, Sequences, FiniteSets, TLC

\* ------------------------------------------------------------------ bounds
MaxFrames == 3      \* inbound frames received per connection
MaxSess == 2        \* runs of the start branch per connection
MaxChunks == 1      \* output chunks a process produces
MaxExitCode == 1    \* exit codes are 0..MaxExitCode
TwoMaxFrames == 1   \* inbound frames per connection when two connections run
MaxStarts == 2      \* calls of startLinking on one whatsappLinker component

\* maxPolls: 60 of the whatsappLinker component
maxPolls == 60

\* --------------------------------------------------------------- constants
Conns == {"A"}
UpgradePath == "/ws/oauth-login"
\* request targets of upgrade requests, and the pathname that
\* new URL(request.url, base).pathname yields for each
Targets == {"/ws/oauth-login", "/ws/oauth-login?x=1", "/ws/oauth-login/", "/other"}
Pathname(t) == IF t = "/ws/oauth-login?x=1" THEN "/ws/oauth-login" ELSE t
Paths == {Pathname(t) : t \in Targets}
Payloads == {"a", "b"}
ExitCodes == 0..MaxExitCode
PtyErrs == {"forkpty failed", ""}   \* err.message of a failed pty.spawn; may be empty

\* Inbound messages after message.toString(): ok = JSON.parse succeeds and
\* yields an object; an absent (or falsy) field is "".
Frame(t, p, d) == [ok |-> TRUE, type |-> t, provider |-> p, data |-> d]
Malformed == [ok |-> FALSE, type |-> "", provider |-> "", data |-> ""]
StartFrames == {Frame("", p, "") : p \in {"gpt", "qwen", "foo"}}
WireStartFrames == {Frame("start", p, "") : p \in {"gpt"}}
InputFrames == {Frame("input", "", d) : d \in Payloads}
EmptyFrame == Frame("", "", "")
Frames == StartFrames \cup WireStartFrames \cup InputFrames \cup {EmptyFrame, Malformed}

VARIABLES
    serverUp,     \* the node process is running (no uncaught exception yet)
    sock,         \* sock[c]: "pending" | "OPEN" | "CLOSED" | "destroyed"; CLOSING
                  \* and CLOSED are one value, the source only tests === OPEN
    req,          \* req[c]: pathname of the upgrade request of c ("" before it)
    recv,         \* recv[c]: number of 'message' events delivered
    last,         \* last[c]: the message of the latest 'message' event
    sess,         \* sess[c]: one record per run of the start branch of the handler
    out,          \* out[c]: the calls of ws.send, in order
    timers,       \* timers[c]: pending setTimeout(() => ws.close(), 1000)
    closeCalls,   \* closeCalls[c]: calls of ws.close() made by the server
    linker,       \* the fields of one whatsappLinker component: state, qrDataUrl,
                  \* errorMsg, pollCount, pollTimer (the field _pollTimer:
                  \* "null", "live" = the id of a pending timer, "stale" = the
                  \* id of a timer that has fired); loadingStep is display text
    env,          \* the browser around it: start and poll requests in flight,
                  \* pending setTimeout callbacks, and whether the component
                  \* is still in the page
    ghost         \* history: calls of startLinking, poll requests issued since
                  \* the last startLinking or reset, and whether close() has run

bridgeVars == <<serverUp, sock, req, recv, last, sess, out, timers, closeCalls>>
linkVars == <<linker, env, ghost>>
vars == <<serverUp, sock, req, recv, last, sess, out, timers, closeCalls,
          linker, env, ghost>>

\* ----------------------------------------------------------------- helpers
SupportedProvider(p) == p = "gpt" \/ p = "qwen"

\* a start test without the provider conjunct: if (!type)
IsStart_NoProviderTest(f) == f.ok /\ f.type = ""

\* a start test that ignores the type field
IsStart_AnyType(f) == f.ok /\ f.provider # ""

\* if (!type && provider), inside the try around JSON.parse
IsStart(f) == f.ok /\ f.type = "" /\ f.provider # ""

\* ws.readyState === ws.OPEN
IsOpen(c) == sock[c] = "OPEN"

\* JSON.stringify({type, ...}) handed to ws.send; open = readyState at the call
OutFrame(c, t, m, d, code, diag, sid) ==
    [type |-> t, msg |-> m, data |-> d, code |-> code, diag |-> diag,
     open |-> IsOpen(c), sid |-> sid]

\* the closure of one run of the start branch; provider (and the command
\* derived from it) is dead once the run has spawned or failed, and is then ""
NewSession(p) ==
    [provider |-> p, pc |-> "import", strategy |-> "none", err |-> "",
     tried |-> <<>>, fwd |-> FALSE, emitted |-> 0, stdin |-> <<>>, wdead |-> 0, code |-> -1,
     nproc |-> 0]

\* a pty.spawn that leaves a process behind when it throws
PtySpawnThrew_LeavesProcess(s, e) ==
    [s EXCEPT !.pc = "import_cp", !.err = e, !.tried = <<"pty">>, !.nproc = @ + 1]

\* pty.spawn throws e: no process exists, control enters catch (err)
PtySpawnThrew(s, e) ==
    [s EXCEPT !.pc = "import_cp", !.err = e, !.tried = <<"pty">>]

\* pty.spawn returns the handle of a new process; the forwarder is registered
PtySpawned(s) ==
    [s EXCEPT !.pc = "running", !.provider = "", !.strategy = "pty",
              !.tried = <<"pty">>, !.fwd = TRUE, !.nproc = @ + 1]

\* spawn('/usr/bin/script', ...) returns a child: started = a process was
\* created; otherwise the child's 'error' event is pending
ScriptSpawned(s, started) ==
    [s EXCEPT !.pc = IF started THEN "running" ELSE "spawnerr",
              !.provider = "", !.strategy = "script",
              !.tried = <<"pty", "script">>, !.fwd = TRUE,
              !.nproc = IF started THEN @ + 1 ELSE @]

\* an exit handler that reports success whatever the exit code
ExitFrame_AlwaysSuccess(c, s, i, code) ==
    OutFrame(c, "success", "login-ok", 0, -1, "", i)

\* an exit handler that never appends the pty failure to the message
ExitFrame_NoDiag(c, s, i, code) ==
    IF code = 0
    THEN OutFrame(c, "success", "login-ok", 0, -1, "", i)
    ELSE OutFrame(c, "error", "exit", 0, code, "", i)

\* the terminal frame of shell.onExit / child.on('close')
ExitFrame(c, s, i, code) ==
    IF code = 0
    THEN OutFrame(c, "success", "login-ok", 0, -1, "", i)
    ELSE OutFrame(c, "error", "exit", 0, code,
                  IF s.strategy = "script" THEN s.err ELSE "", i)

\* the inner ws.on('message') forwarder of session s, run on frame f:
\* shell.write(inputData.data) if type === 'input' and shell is defined
\* (shell stays undefined on the fallback path)
Forward(s, f) ==
    IF s.fwd /\ f.ok /\ f.type = "input" /\ s.strategy = "pty"
    THEN IF s.pc = "running"
         THEN [s EXCEPT !.stdin = Append(@, f.data)]
         ELSE [s EXCEPT !.wdead = @ + 1]
    ELSE s

\* ------------------------------------------------------------------- Init
\* Alpine.data('whatsappLinker', ...): the initial fields of the component
LinkerInit ==
    /\ linker = [state |-> "idle", qrDataUrl |-> "", errorMsg |-> "",
                 pollCount |-> 0, pollTimer |-> "null"]
    /\ env = [starts |-> 0, polls |-> 0, timers |-> 0, mounted |-> TRUE]
    /\ ghost = [calls |-> 0, issued |-> 0, closed |-> FALSE]

Init ==
    /\ LinkerInit
    /\ serverUp = TRUE
    /\ sock = [c \in Conns |-> "pending"]
    /\ req = [c \in Conns |-> ""]
    /\ recv = [c \in Conns |-> 0]
    /\ last = [c \in Conns |-> Malformed]
    /\ sess = [c \in Conns |-> <<>>]
    /\ out = [c \in Conns |-> <<>>]
    /\ timers = [c \in Conns |-> 0]
    /\ closeCalls = [c \in Conns |-> 0]

\* ---------------------------------------------------------------- actions
\* an upgrade handler that hands every request to handleUpgrade
Upgrade_AnyPath(c, path) ==
    /\ serverUp /\ sock[c] = "pending"
    /\ sock' = [sock EXCEPT ![c] = "OPEN"]
    /\ req' = [req EXCEPT ![c] = path]
    /\ UNCHANGED <<serverUp, recv, last, sess, out, timers, closeCalls>>

\* server.on('upgrade'): only the fixed path gets a handler
Upgrade(c, path) ==
    /\ serverUp /\ sock[c] = "pending"
    /\ sock' = [sock EXCEPT ![c] = IF path = UpgradePath THEN "OPEN" ELSE "destroyed"]
    /\ req' = [req EXCEPT ![c] = path]
    /\ UNCHANGED <<serverUp, recv, last, sess, out, timers, closeCalls>>

\* an outer catch that answers a parse failure with an error frame and ws.close()
OuterCatch_CloseSocket(c) ==
    /\ out' = [out EXCEPT ![c] =
                  Append(@, OutFrame(c, "error", "bad-frame", 0, -1, "", 0))]
    /\ closeCalls' = [closeCalls EXCEPT ![c] = @ + 1]
    /\ sock' = [sock EXCEPT ![c] = "CLOSED"]
    /\ UNCHANGED sess

\* catch (error) of the outer handler when JSON.parse throws: console.error
\* only (the forwarders swallow their own parse error)
OuterCatch(c) == UNCHANGED <<sess, out, sock, closeCalls>>

\* one 'message' event: the outer async handler up to its first await,
\* followed by every registered input forwarder, in registration order
Receive(c, f) ==
    /\ serverUp /\ IsOpen(c) /\ recv[c] < MaxFrames
    /\ IsStart(f) => Len(sess[c]) < MaxSess
    /\ recv' = [recv EXCEPT ![c] = @ + 1]
    /\ last' = [last EXCEPT ![c] = f]
    /\ IF ~f.ok
       THEN OuterCatch(c)
       ELSE /\ LET fw == [i \in 1..Len(sess[c]) |-> Forward(sess[c][i], f)]
               IN  IF IsStart(f)
                   THEN IF f.provider = ""
                        THEN /\ out' = [out EXCEPT ![c] =
                                   Append(@, OutFrame(c, "error", "no-provider", 0, -1, "", 0))]
                             /\ sess' = [sess EXCEPT ![c] = fw]
                        ELSE /\ sess' = [sess EXCEPT ![c] = Append(fw, NewSession(f.provider))]
                             /\ out' = out
                   ELSE /\ sess' = [sess EXCEPT ![c] = fw]
                        /\ out' = out
            /\ UNCHANGED <<sock, closeCalls>>
    /\ UNCHANGED <<serverUp, timers, req>>

\* catch (error) at the launch boundary: ws.send(error) ; ws.close();
\* t = the spawn strategies attempted by this run so far
LaunchFailed(c, i, t) ==
    /\ out' = [out EXCEPT ![c] =
                  Append(@, OutFrame(c, "error", "launch-failed", 0, -1, "", i))]
    /\ closeCalls' = [closeCalls EXCEPT ![c] = @ + 1]
    /\ sock' = [sock EXCEPT ![c] = "CLOSED"]
    /\ sess' = [sess EXCEPT ![c][i] =
                  [@ EXCEPT !.pc = "failed", !.provider = "", !.tried = t]]

\* continuation after `await import('node-pty')`: r = "fail" (import rejects),
\* "ok" (pty.spawn returns) or "throw" (pty.spawn throws e)
ImportPtyDone(c, i, r, e) ==
    /\ serverUp /\ i \in 1..Len(sess[c]) /\ sess[c][i].pc = "import"
    /\ IF r = "fail"
       THEN LaunchFailed(c, i, <<>>)
       ELSE /\ UNCHANGED <<sock, closeCalls>>
            /\ IF ~SupportedProvider(sess[c][i].provider)
               THEN /\ out' = [out EXCEPT ![c] =
                           Append(@, OutFrame(c, "error", "unsupported", 0, -1, "", i))]
                    /\ sess' = [sess EXCEPT ![c][i].pc = "unsupported"]
               ELSE /\ out' = out
                    /\ IF r = "ok"
                       THEN sess' = [sess EXCEPT ![c][i] = PtySpawned(@)]
                       ELSE sess' = [sess EXCEPT ![c][i] = PtySpawnThrew(@, e)]
    /\ UNCHANGED <<serverUp, req, recv, last, timers>>

\* continuation after `await import('child_process')` in the pty catch:
\* spawn('/usr/bin/script', ...) returns a child ("ok"), returns a child whose
\* 'error' event is pending ("enoent"), or throws ("throw")
ImportCpDone(c, i, r) ==
    /\ serverUp /\ i \in 1..Len(sess[c]) /\ sess[c][i].pc = "import_cp"
    /\ IF r = "throw"
       THEN LaunchFailed(c, i, <<"pty", "script">>)
       ELSE /\ sess' = [sess EXCEPT ![c][i] = ScriptSpawned(@, r = "ok")]
            /\ UNCHANGED <<sock, closeCalls, out>>
    /\ UNCHANGED <<serverUp, req, recv, last, timers>>

\* the child's 'error' event: no listener is registered, so the EventEmitter
\* throws and the uncaught exception ends the server process, which drops
\* every open socket of the server
SpawnError(c, i) ==
    /\ serverUp /\ i \in 1..Len(sess[c]) /\ sess[c][i].pc = "spawnerr"
    /\ serverUp' = FALSE
    /\ sock' = [d \in DOMAIN sock |-> IF sock[d] = "OPEN" THEN "CLOSED" ELSE sock[d]]
    /\ UNCHANGED <<req, recv, last, sess, out, timers, closeCalls>>

\* data.toString() of a Buffer chunk n: the text n when the chunk is whole
\* UTF-8; a chunk cut inside a multi-byte character decodes to text with
\* U+FFFD in place of the cut bytes, written -n
BufferToString(n, whole) == IF whole THEN n ELSE -n

\* the text handed to JSON.stringify for chunk n: node-pty delivers decoded
\* strings, the fallback child delivers Buffers
ChunkText(s, n, whole) == IF s.strategy = "script" THEN BufferToString(n, whole) ELSE n

\* shell.onData / child.stdout.on('data') / child.stderr.on('data');
\* whole = the bytes of the chunk end on a character boundary
Output(c, i, whole) ==
    /\ serverUp /\ i \in 1..Len(sess[c]) /\ sess[c][i].pc = "running"
    /\ sess[c][i].emitted < MaxChunks
    /\ sess[c][i].strategy = "pty" => whole
    /\ sess' = [sess EXCEPT ![c][i].emitted = @ + 1]
    /\ out' = IF IsOpen(c)
              THEN [out EXCEPT ![c] =
                      Append(@, OutFrame(c, "output", "",
                                 ChunkText(sess[c][i], sess[c][i].emitted + 1, whole),
                                 -1, "", i))]
              ELSE out
    /\ UNCHANGED <<serverUp, sock, req, recv, last, timers, closeCalls>>

\* shell.onExit / child.on('close')
Exit(c, i, code) ==
    /\ serverUp /\ i \in 1..Len(sess[c]) /\ sess[c][i].pc = "running"
    /\ sess' = [sess EXCEPT ![c][i] = [@ EXCEPT !.pc = "exited", !.code = code]]
    /\ IF IsOpen(c)
       THEN /\ out' = [out EXCEPT ![c] = Append(@, ExitFrame(c, sess[c][i], i, code))]
            /\ timers' = [timers EXCEPT ![c] = @ + 1]
       ELSE UNCHANGED <<out, timers>>
    /\ UNCHANGED <<serverUp, sock, req, recv, last, closeCalls>>

\* a timer callback that does not close the socket
TimerFire_KeepOpen(c) ==
    /\ serverUp /\ timers[c] > 0
    /\ timers' = [timers EXCEPT ![c] = @ - 1]
    /\ UNCHANGED <<serverUp, sock, req, recv, last, sess, out, closeCalls>>

\* setTimeout(() => ws.close(), 1000) fires
TimerFire(c) ==
    /\ serverUp /\ timers[c] > 0
    /\ timers' = [timers EXCEPT ![c] = @ - 1]
    /\ closeCalls' = [closeCalls EXCEPT ![c] = @ + 1]
    /\ sock' = [sock EXCEPT ![c] = "CLOSED"]
    /\ UNCHANGED <<serverUp, req, recv, last, sess, out>>

\* the peer closes the socket; ws.on('close') only logs
ClientClose(c) ==
    /\ serverUp /\ IsOpen(c)
    /\ sock' = [sock EXCEPT ![c] = "CLOSED"]
    /\ UNCHANGED <<serverUp, req, recv, last, sess, out, timers, closeCalls>>

Next ==
    \/ \E c \in Conns, t \in Targets : Upgrade(c, Pathname(t)) /\ UNCHANGED linkVars
    \/ \E c \in Conns, f \in Frames : Receive(c, f) /\ UNCHANGED linkVars
    \/ \E c \in Conns, i \in 1..MaxSess, r \in {"ok", "fail", "throw"}, e \in PtyErrs :
          ImportPtyDone(c, i, r, e) /\ UNCHANGED linkVars
    \/ \E c \in Conns, i \in 1..MaxSess, r \in {"ok", "enoent", "throw"} :
          ImportCpDone(c, i, r) /\ UNCHANGED linkVars
    \/ \E c \in Conns, i \in 1..MaxSess : SpawnError(c, i) /\ UNCHANGED linkVars
    \/ \E c \in Conns, i \in 1..MaxSess, w \in BOOLEAN : Output(c, i, w) /\ UNCHANGED linkVars
    \/ \E c \in Conns, i \in 1..MaxSess, code \in ExitCodes : Exit(c, i, code) /\ UNCHANGED linkVars
    \/ \E c \in Conns : TimerFire(c) /\ UNCHANGED linkVars
    \/ \E c \in Conns : ClientClose(c) /\ UNCHANGED linkVars

Spec == Init /\ [][Next]_vars

\* The same handlers driven by the frames of a well-behaved client (start
\* frames of one flow, input frames of one payload), with the fairness the
\* event loop gives: a timer set with setTimeout fires while the server runs.
LiveFrames == {Frame("", "gpt", ""), Frame("input", "", "a")}
LiveNext ==
    \/ \E c \in Conns, t \in Targets : Upgrade(c, Pathname(t)) /\ UNCHANGED linkVars
    \/ \E c \in Conns, f \in LiveFrames : Receive(c, f) /\ UNCHANGED linkVars
    \/ \E c \in Conns, i \in 1..MaxSess, r \in {"ok", "fail", "throw"}, e \in PtyErrs :
          ImportPtyDone(c, i, r, e) /\ UNCHANGED linkVars
    \/ \E c \in Conns, i \in 1..MaxSess, r \in {"ok", "enoent", "throw"} :
          ImportCpDone(c, i, r) /\ UNCHANGED linkVars
    \/ \E c \in Conns, i \in 1..MaxSess : SpawnError(c, i) /\ UNCHANGED linkVars
    \/ \E c \in Conns, i \in 1..MaxSess, w \in BOOLEAN : Output(c, i, w) /\ UNCHANGED linkVars
    \/ \E c \in Conns, i \in 1..MaxSess, code \in ExitCodes : Exit(c, i, code) /\ UNCHANGED linkVars
    \/ \E c \in Conns : TimerFire(c) /\ UNCHANGED linkVars
    \/ \E c \in Conns : ClientClose(c) /\ UNCHANGED linkVars
Fairness == \A c \in Conns : WF_vars(TimerFire(c) /\ UNCHANGED linkVars)
LiveSpec == Init /\ [][LiveNext]_vars /\ Fairness

\* Two connections served by the same server process, each driven by the
\* frames of a well-behaved client.
Conns2 == {"A", "B"}
InitTwo ==
    /\ LinkerInit
    /\ serverUp = TRUE
    /\ sock = [c \in Conns2 |-> "pending"]
    /\ req = [c \in Conns2 |-> ""]
    /\ recv = [c \in Conns2 |-> 0]
    /\ last = [c \in Conns2 |-> Malformed]
    /\ sess = [c \in Conns2 |-> <<>>]
    /\ out = [c \in Conns2 |-> <<>>]
    /\ timers = [c \in Conns2 |-> 0]
    /\ closeCalls = [c \in Conns2 |-> 0]
NextTwo ==
    \/ \E c \in Conns2 : Upgrade(c, UpgradePath) /\ UNCHANGED linkVars
    \/ \E c \in Conns2, f \in LiveFrames : recv[c] < TwoMaxFrames /\ Receive(c, f) /\ UNCHANGED linkVars
    \/ \E c \in Conns2, i \in 1..MaxSess, r \in {"ok", "fail", "throw"}, e \in PtyErrs :
          ImportPtyDone(c, i, r, e) /\ UNCHANGED linkVars
    \/ \E c \in Conns2, i \in 1..MaxSess, r \in {"ok", "enoent", "throw"} :
          ImportCpDone(c, i, r) /\ UNCHANGED linkVars
    \/ \E c \in Conns2, i \in 1..MaxSess : SpawnError(c, i) /\ UNCHANGED linkVars
    \/ \E c \in Conns2, i \in 1..MaxSess, w \in BOOLEAN : Output(c, i, w) /\ UNCHANGED linkVars
    \/ \E c \in Conns2, i \in 1..MaxSess, code \in ExitCodes : Exit(c, i, code) /\ UNCHANGED linkVars
    \/ \E c \in Conns2 : TimerFire(c) /\ UNCHANGED linkVars
    \/ \E c \in Conns2 : ClientClose(c) /\ UNCHANGED linkVars
SpecTwo == InitTwo /\ [][NextTwo]_vars

\* ------------------------------------------------ the whatsappLinker component
\* The Alpine component behind the WhatsApp QR form.  Its methods are called
\* from the buttons of the form: startLinking() is offered in the states
\* idle, qr ("refresh QR") and error ("retry"), close() in every state.

\* outcomes of POST /api/config/whatsapp/link/start: a QR image, success:
\* false, no qrDataUrl, or a rejected fetch / unparsable body
StartOutcomes == {"ok", "rejected", "noqr", "neterr"}

\* outcomes of POST /api/config/whatsapp/link/poll
PollOutcomes == {"connected", "pending", "neterr"}

\* a limit test that lets one more poll through: pollCount > maxPolls
PollLinkStatus_OffByOne(l, e, g) ==
    IF l.state # "qr"
    THEN linker' = l /\ env' = e /\ ghost' = g
    ELSE IF l.pollCount > maxPolls
         THEN /\ linker' = [l EXCEPT !.state = "error", !.errorMsg = "timeout"]
              /\ env' = e /\ ghost' = g
         ELSE /\ linker' = [l EXCEPT !.pollCount = @ + 1]
              /\ env' = [e EXCEPT !.polls = @ + 1]
              /\ ghost' = [g EXCEPT !.issued = @ + 1]

\* pollLinkStatus() up to its first await, run on the fields l: return unless
\* state is 'qr'; time out at maxPolls; otherwise count and issue the request
PollLinkStatus(l, e, g) ==
    IF l.state # "qr"
    THEN linker' = l /\ env' = e /\ ghost' = g
    ELSE IF l.pollCount >= maxPolls
         THEN /\ linker' = [l EXCEPT !.state = "error", !.errorMsg = "timeout"]
              /\ env' = e /\ ghost' = g
         ELSE /\ linker' = [l EXCEPT !.pollCount = @ + 1]
              /\ env' = [e EXCEPT !.polls = @ + 1]
              /\ ghost' = [g EXCEPT !.issued = @ + 1]

\* a failure branch that records the message and leaves the state alone
StartFailed_StaysLoading(l, msg) == [l EXCEPT !.errorMsg = msg]

\* the failure branches of startLinking: state = 'error' with a message
StartFailed(l, msg) == [l EXCEPT !.state = "error", !.errorMsg = msg]

\* clearTimeout(this._pollTimer): cancels the timer the field names, if it
\* is still pending
ClearPollTimer(l, e) ==
    [e EXCEPT !.timers = IF l.pollTimer = "live" THEN @ - 1 ELSE @]

\* the assignments of reset()
Reset(l) ==
    [l EXCEPT !.state = "idle", !.qrDataUrl = "", !.errorMsg = "",
              !.pollCount = 0, !.pollTimer = "null"]

\* startLinking() up to `await fetch(start)`
StartLinking ==
    /\ env.mounted /\ linker.state \in {"idle", "qr", "error"}
    /\ ghost.calls < MaxStarts
    /\ linker' = [linker EXCEPT !.state = "loading", !.errorMsg = "",
                                !.qrDataUrl = "", !.pollCount = 0]
    /\ env' = [env EXCEPT !.starts = @ + 1]
    /\ ghost' = [ghost EXCEPT !.calls = @ + 1, !.issued = 0]

\* the continuation of startLinking() after its awaits, with outcome r; on
\* "ok" it sets state = 'qr' and calls pollLinkStatus()
StartResponse(r) ==
    /\ env.starts > 0
    /\ LET e == [env EXCEPT !.starts = @ - 1] IN
       CASE r = "ok" ->
              PollLinkStatus([linker EXCEPT !.qrDataUrl = "qr", !.state = "qr"], e, ghost)
         [] r = "rejected" ->
              linker' = StartFailed(linker, "start-failed") /\ env' = e /\ ghost' = ghost
         [] r = "noqr" ->
              linker' = StartFailed(linker, "no-qr") /\ env' = e /\ ghost' = ghost
         [] OTHER ->
              linker' = StartFailed(linker, "network") /\ env' = e /\ ghost' = ghost

\* the continuation of pollLinkStatus() after its awaits, with outcome r:
\* state = 'success', or this._pollTimer = setTimeout(pollLinkStatus, ...)
PollResponse(r) ==
    /\ env.polls > 0
    /\ IF r = "connected"
       THEN /\ linker' = [linker EXCEPT !.state = "success"]
            /\ env' = [env EXCEPT !.polls = @ - 1]
       ELSE /\ linker' = [linker EXCEPT !.pollTimer = "live"]
            /\ env' = [env EXCEPT !.polls = @ - 1, !.timers = @ + 1]
    /\ ghost' = ghost

\* a pending setTimeout callback runs pollLinkStatus(); own = the timer is
\* the one this._pollTimer names
PollTimerFire(own) ==
    /\ env.timers > 0
    /\ IF own THEN linker.pollTimer = "live"
              ELSE env.timers > (IF linker.pollTimer = "live" THEN 1 ELSE 0)
    /\ PollLinkStatus(IF own THEN [linker EXCEPT !.pollTimer = "stale"] ELSE linker,
                      [env EXCEPT !.timers = @ - 1], ghost)

\* close(): reset(), then the form area is emptied, which removes the
\* component from the page (Alpine then runs destroy(), with nothing to clear)
Close ==
    /\ env.mounted
    /\ linker' = Reset(linker)
    /\ env' = [ClearPollTimer(linker, env) EXCEPT !.mounted = FALSE]
    /\ ghost' = [ghost EXCEPT !.issued = 0, !.closed = TRUE]

\* destroy(): the form area is swapped for another form while the component
\* is in the page
Destroy ==
    /\ env.mounted
    /\ linker' = [linker EXCEPT !.pollTimer = "null"]
    /\ env' = [ClearPollTimer(linker, env) EXCEPT !.mounted = FALSE]
    /\ ghost' = ghost

LinkNext ==
    \/ StartLinking /\ UNCHANGED bridgeVars
    \/ \E r \in StartOutcomes : StartResponse(r) /\ UNCHANGED bridgeVars
    \/ \E r \in PollOutcomes : PollResponse(r) /\ UNCHANGED bridgeVars
    \/ \E own \in BOOLEAN : PollTimerFire(own) /\ UNCHANGED bridgeVars
    \/ Close /\ UNCHANGED bridgeVars
    \/ Destroy /\ UNCHANGED bridgeVars

LinkSpec == Init /\ [][LinkNext]_vars

\* ------------------------------------------------------- derived notions
Sessions(c) == 1..Len(sess[c])
OutIdx(c) == 1..Len(out[c])

\* a process handle exists for session i and its process has not exited
Attached(c, i) == sess[c][i].pc \in {"running", "spawnerr"}

\* the handler run of session i is between its start frame and a handle
Launching(c, i) == sess[c][i].pc \in {"import", "import_cp"}

IsTerminal(fr) == fr.type \in {"success", "error"}

\* the terminal frames sent by the exit handler of session i
ExitTerminals(c, i) ==
    {k \in OutIdx(c) : out[c][k].sid = i /\ out[c][k].msg \in {"login-ok", "exit"}}

\* this step delivers one 'message' event on c
Received(c) == recv'[c] = recv[c] + 1

\* ----------------------------------------------------------------- claims

\* C1: at most one child process is attached to a connection at any time; a
\* further start frame on an Active connection spawns no second process.
C1_AtMostOneProcess ==
    \A c \in Conns : Cardinality({i \in Sessions(c) : Attached(c, i)}) <= 1

\* C2: no outbound frame is sent after the socket has been observed closed:
\* every call of ws.send happens while the socket is open.
C2_NoSendAfterClose ==
    \A c \in Conns : \A k \in OutIdx(c) : out[c][k].open

\* C3: on a connection whose session process exited while the socket was
\* open, the outbound frames are output frames followed by exactly one
\* terminal frame: a terminal frame is the last frame and there is only one.
C3_OutputsThenOneTerminal ==
    \A c \in Conns :
        (\E i \in Sessions(c) : ExitTerminals(c, i) # {}) =>
            /\ Cardinality({k \in OutIdx(c) : IsTerminal(out[c][k])}) = 1
            /\ \A k \in OutIdx(c) : IsTerminal(out[c][k]) => k = Len(out[c])

\* C4: terminal-code mapping.  The step in which a session process exits
\* while the socket is open sends exactly one frame: success for code 0, an
\* error frame carrying the code otherwise (pty and fallback alike); an exit
\* handler never sends a second terminal frame and sends none before the exit.
C4_ExitStep ==
    \A c \in Conns : \A i \in Sessions(c) :
        (sess[c][i].pc = "running" /\ sess'[c][i].pc = "exited" /\ IsOpen(c)) =>
            /\ Len(out'[c]) = Len(out[c]) + 1
            /\ SubSeq(out'[c], 1, Len(out[c])) = out[c]
            /\ LET fr == out'[c][Len(out'[c])]
                   code == sess'[c][i].code
               IN  /\ fr.sid = i /\ fr.open
                   /\ code = 0 => fr.type = "success"
                   /\ code # 0 => fr.type = "error" /\ fr.code = code
C4_ExitCount ==
    \A c \in Conns : \A i \in Sessions(c) :
        /\ Cardinality(ExitTerminals(c, i)) <= 1
        /\ sess[c][i].pc # "exited" => ExitTerminals(c, i) = {}
        /\ \A k \in ExitTerminals(c, i) :
              /\ out[c][k].type = "success" <=> sess[c][i].code = 0
              /\ out[c][k].type = "error" => out[c][k].code = sess[c][i].code
C4_TerminalCodeMapping == [][C4_ExitStep]_vars /\ []C4_ExitCount
C4_Witness ==
    \E c \in Conns : \E i \in Sessions(c) :
        /\ sess[c][i].pc = "exited" /\ sess[c][i].strategy = "script"
        /\ sess[c][i].code = 1
        /\ \E k \in ExitTerminals(c, i) :
              out[c][k].type = "error" /\ out[c][k].code = 1 /\ out[c][k].open

\* C5: for an unsupported flow identifier the error frame is the first
\* outbound frame, the socket is then closed, and afterwards no output frame
\* is sent and no session is started on that connection.
C5_UnsupportedIsTerminal ==
    \A c \in Conns : \A i \in Sessions(c) :
        sess[c][i].pc = "unsupported" =>
            /\ ~IsOpen(c)
            /\ out[c][1].msg = "unsupported"
            /\ \A k \in OutIdx(c) : out[c][k].type # "output"
            /\ \A j \in Sessions(c) : j <= i

C6_StartStep ==
    \A c \in Conns :
        Received(c) =>
            LET f == last'[c] IN
            /\ (f.ok /\ f.type = "" /\ SupportedProvider(f.provider)) =>
                  /\ Len(sess'[c]) = Len(sess[c]) + 1
                  /\ sess'[c][Len(sess'[c])] = NewSession(f.provider)
                  /\ sess'[c][Len(sess'[c])].pc = "import"
            /\ f \in WireStartFrames => (sess'[c] = sess[c] /\ out'[c] = out[c])
            /\ Len(sess'[c]) # Len(sess[c]) => (f.ok /\ f.type = "" /\ f.provider # "")
C6_OutputBeforeTerminal ==
    \A c \in Conns : \A i \in Sessions(c) : \A k \in ExitTerminals(c, i) :
        sess[c][i].emitted >= 1 =>
            \E j \in 1..(k - 1) : out[c][j].type = "output" /\ out[c][j].sid = i
C7_InputRoundTrip ==
    [][\A c \in Conns : \A i \in Sessions(c) :
          (Received(c) /\ last'[c] \in InputFrames /\ sess[c][i].pc = "running") =>
              sess'[c][i].stdin = Append(sess[c][i].stdin, last'[c].data)]_vars

\* C8: process handle and socket are released together exactly once by
\* whichever of process exit and socket close comes first: once the socket
\* is closed no process is attached, the socket is closed by at most one
\* ws.close() (called or scheduled) and at most one terminal frame is sent.
C8_ReleasedTogetherOnce ==
    \A c \in Conns :
        /\ sock[c] = "CLOSED" => \A i \in Sessions(c) : ~Attached(c, i)
        /\ closeCalls[c] + timers[c] <= 1
        /\ Cardinality({k \in OutIdx(c) : IsTerminal(out[c][k])}) <= 1

\* C9: early disconnect: once the socket has closed, no unhandled error has
\* been raised and the connection holds no session that is Launching or
\* Active (no registry entry, no process handle).
C9_EarlyDisconnectDeregisters ==
    /\ serverUp
    /\ \A c \in Conns :
          sock[c] = "CLOSED" =>
              \A i \in Sessions(c) : ~Launching(c, i) /\ ~Attached(c, i)

\* C10: failure containment: a failure of any launch strategy never ends the
\* server; it yields exactly one error frame of that session and a closed
\* socket.
C10_FailureContained ==
    /\ serverUp
    /\ \A c \in Conns : \A i \in Sessions(c) :
          sess[c][i].pc = "failed" =>
              /\ Cardinality({k \in OutIdx(c) : out[c][k].sid = i /\ out[c][k].type = "error"}) = 1
              /\ ~IsOpen(c)

\* C11: a malformed inbound frame, in any session state, closes nothing,
\* sends nothing, writes nothing to a process and leaves every session as it
\* was; the socket stays open, and an input frame received right after it is
\* still written to every running pty process.
C11_MalformedStep ==
    \A c \in Conns :
        /\ (Received(c) /\ ~last'[c].ok) =>
              /\ sess'[c] = sess[c] /\ out'[c] = out[c]
              /\ sock'[c] = "OPEN" /\ closeCalls'[c] = closeCalls[c]
              /\ timers'[c] = timers[c] /\ serverUp'
        /\ (Received(c) /\ recv[c] > 0 /\ ~last[c].ok /\ last'[c] \in InputFrames) =>
              \A i \in Sessions(c) :
                  (sess[c][i].pc = "running" /\ sess[c][i].strategy = "pty") =>
                      sess'[c][i].stdin = Append(sess[c][i].stdin, last'[c].data)
C11_MalformedIgnored == [][C11_MalformedStep]_vars
C11_Witness ==
    \E c \in Conns : \E i \in Sessions(c) :
        /\ recv[c] >= 3 /\ ~last[c].ok /\ IsOpen(c) /\ out[c] = <<>>
        /\ sess[c][i].pc = "running" /\ Len(sess[c][i].stdin) = 1

\* C12: the launcher tries pty, then the recording wrapper, then plain pipes:
\* a later strategy only after every earlier one failed, the process handle
\* is that of the last strategy tried, and a launch-failure error frame comes
\* only after every strategy has failed (a failing pty step, whatever its
\* reason, leads to the fallback).
StrategyOrder == <<"pty", "script", "pipes">>
C12_OrderedFallback ==
    \A c \in Conns : \A i \in Sessions(c) :
        LET t == sess[c][i].tried IN
        /\ Len(t) <= Len(StrategyOrder) /\ t = SubSeq(StrategyOrder, 1, Len(t))
        /\ sess[c][i].strategy # "none" => sess[c][i].strategy = t[Len(t)]
        /\ sess[c][i].pc = "failed" => t = StrategyOrder

\* C13: when the launch of a session has failed (the launch catch ran, or the
\* fallback child failed to spawn), exactly one error frame of that session
\* was sent, the socket is closed, and the session never became Active: no
\* process handle and no input forwarder exist for it.
C13_LaunchFailedClosed ==
    \A c \in Conns : \A i \in Sessions(c) :
        (sess[c][i].pc = "failed" \/ (sess[c][i].pc = "spawnerr" /\ ~serverUp)) =>
            /\ Cardinality({k \in OutIdx(c) :
                   out[c][k].sid = i /\ out[c][k].type = "error"}) = 1
            /\ ~IsOpen(c)
            /\ sess[c][i].strategy = "none" /\ ~sess[c][i].fwd

\* C14: an upgrade request is accepted only when its path is exactly
\* /ws/oauth-login; for any other path the socket is destroyed, and a
\* destroyed socket never gets a handler: no message, session, process,
\* frame, timer or close call ever exists for it.
C14_OnlyFixedPath ==
    \A c \in Conns :
        /\ sock[c] \in {"OPEN", "CLOSED"} => req[c] = UpgradePath
        /\ (sock[c] # "pending" /\ req[c] # UpgradePath) => sock[c] = "destroyed"
        /\ sock[c] \in {"pending", "destroyed"} =>
              /\ recv[c] = 0 /\ sess[c] = <<>> /\ out[c] = <<>>
              /\ timers[c] = 0 /\ closeCalls[c] = 0
C14_Witness ==
    \E c \in Conns : sock[c] = "destroyed" /\ req[c] = "/ws/oauth-login/"

\* C15: the exit step that sends a terminal frame schedules the socket
\* closure exactly once (and no other step schedules one), and once a closure
\* is scheduled the socket is eventually closed: every session whose process
\* exits ends with its connection closed.
C15_ScheduleStep ==
    \A c \in Conns :
        /\ timers'[c] > timers[c] =>
              /\ timers'[c] = timers[c] + 1
              /\ Len(out'[c]) = Len(out[c]) + 1
              /\ out'[c][Len(out'[c])].msg \in {"login-ok", "exit"}
        /\ \A i \in Sessions(c) :
              (sess[c][i].pc = "running" /\ sess'[c][i].pc = "exited" /\ IsOpen(c)) =>
                  timers'[c] = timers[c] + 1
C15_EventuallyClosed ==
    /\ [][C15_ScheduleStep]_vars
    /\ \A c \in Conns : (timers[c] > 0) ~> (sock[c] = "CLOSED")
    /\ \A c \in Conns : \A i \in 1..MaxSess :
          (i \in Sessions(c) /\ sess[c][i].pc = "exited") ~> (sock[c] = "CLOSED")
C15_Witness ==
    \E c \in Conns : \E i \in Sessions(c) :
        /\ sess[c][i].pc = "exited" /\ ExitTerminals(c, i) # {}
        /\ timers[c] = 0 /\ closeCalls[c] = 1 /\ sock[c] = "CLOSED"

\* C16: the session state of a connection only moves forward along Idle,
\* Launching, Active, Terminating, Closed; Closed is absorbing; and once a
\* start frame has been handled no further session can be launched on the
\* connection.  The state of a connection is that of its latest handler run.
SessRank(s) ==
    CASE s.pc \in {"import", "import_cp"} -> 1
      [] s.pc \in {"running", "spawnerr"} -> 2
      [] s.pc = "exited" -> 3
      [] OTHER -> 4
ConnRank(c) ==
    IF sock[c] = "CLOSED" THEN 4
    ELSE IF sess[c] = <<>> THEN 0
    ELSE SessRank(sess[c][Len(sess[c])])
C16_ForwardOnly ==
    [][\A c \in Conns :
          /\ ConnRank(c)' >= ConnRank(c)
          /\ Len(sess[c]) >= 1 => Len(sess'[c]) = Len(sess[c])]_vars

\* C17: relay forwarding happens only in Active: the step that receives an
\* input frame calls write on no process handle whose process has exited
\* (or that does not exist yet), and an output frame is sent only by a
\* session that is Active.
C17_RelayOnlyInActive ==
    [][\A c \in Conns :
          /\ \A i \in Sessions(c) :
                (Received(c) /\ sess[c][i].pc # "running") =>
                    /\ sess'[c][i].stdin = sess[c][i].stdin
                    /\ sess'[c][i].wdead = sess[c][i].wdead
          /\ (Len(out'[c]) > Len(out[c]) /\ out'[c][Len(out'[c])].type = "output") =>
                LET i == out'[c][Len(out'[c])].sid IN
                i \in Sessions(c) /\ sess[c][i].pc = "running"]_vars

\* C18: while the socket is open, the step in which a process produces its
\* n-th chunk sends exactly one output frame carrying that chunk unchanged,
\* so that the output frames of a process carry its chunks 1, 2, ... in
\* order, none merged, duplicated or reordered.
C18_ChunkRelayedUnchanged ==
    [][\A c \in Conns : \A i \in Sessions(c) :
          (sess'[c][i].emitted = sess[c][i].emitted + 1 /\ IsOpen(c)) =>
              /\ Len(out'[c]) = Len(out[c]) + 1
              /\ SubSeq(out'[c], 1, Len(out[c])) = out[c]
              /\ LET fr == out'[c][Len(out'[c])] IN
                 fr.type = "output" /\ fr.sid = i /\ fr.data = sess'[c][i].emitted]_vars

\* C19: sessions are isolated: no step changes the state of two connections;
\* whatever happens on one connection (an input or output, its close, its
\* failure) leaves the socket, sessions, frames and timers of every other
\* connection as they were.
ConnView(c) == <<sock[c], recv[c], sess[c], out[c], timers[c], closeCalls[c]>>
C19_Isolated ==
    [][\A a \in DOMAIN sock : \A b \in DOMAIN sock :
          (a # b /\ ConnView(a)' # ConnView(a)) => ConnView(b)' = ConnView(b)]_vars

\* the error frames sent by the exit handler of session i
ExitErrors(c, i) == {k \in ExitTerminals(c, i) : out[c][k].type = "error"}

\* C20 (as stated): the error frame of a nonzero exit carries the exit code,
\* and carries the reason the pty strategy failed if and only if the process
\* was launched through the fallback path.
C20_DiagIffFallback ==
    \A c \in Conns : \A i \in Sessions(c) : \A k \in ExitErrors(c, i) :
        /\ out[c][k].code = sess[c][i].code
        /\ out[c][k].diag # "" <=> sess[c][i].strategy = "script"

\* C20 (amended): the error frame of a nonzero exit carries the exit code,
\* and carries the reason the pty strategy failed if and only if the process
\* was launched through the fallback path and the pty failure has a
\* non-empty message; the reason carried is that message, and the error
\* frame of a pty-launched process never carries a fallback diagnostic.
C20_DiagIffFallbackWithMessage ==
    \A c \in Conns : \A i \in Sessions(c) : \A k \in ExitErrors(c, i) :
        /\ out[c][k].code = sess[c][i].code /\ out[c][k].code # 0
        /\ out[c][k].diag # "" <=>
              (sess[c][i].strategy = "script" /\ sess[c][i].err # "")
        /\ out[c][k].diag # "" => out[c][k].diag = sess[c][i].err
        /\ sess[c][i].strategy = "pty" => out[c][k].diag = ""
C20_Witness ==
    \E c \in Conns : \E i, j \in Sessions(c) :
        /\ sess[c][i].strategy = "script" /\ sess[c][i].err = "forkpty failed"
        /\ \E k \in ExitErrors(c, i) : out[c][k].diag = "forkpty failed"
        /\ sess[c][j].strategy = "pty" /\ ExitErrors(c, j) # {}

\* C21: silent teardown after an early close: once the socket of a
\* connection has closed while a process of it is still running, no frame
\* is sent on the connection then or later and no socket closure is
\* scheduled; the step that closes the socket leaves every running process
\* running (no signal is sent), and the output and the exit of the orphaned
\* process send nothing.
C21_SilentAfterEarlyClose ==
    [][\A c \in Conns :
          /\ (IsOpen(c) /\ sock'[c] = "CLOSED") =>
                \A i \in Sessions(c) :
                    sess[c][i].pc = "running" => sess'[c][i].pc = "running"
          /\ (sock[c] = "CLOSED" /\ \E i \in Sessions(c) : sess[c][i].pc = "running") =>
                /\ out'[c] = out[c]
                /\ timers'[c] <= timers[c]]_vars

\* C22: launch side effects: a handler run that launched successfully has
\* created exactly one OS process, by whichever strategy; a run whose flow
\* was rejected as unsupported, that is still launching, or whose launch
\* failed before a spawn succeeded has created none.
C22_OneProcessPerLaunch ==
    \A c \in Conns : \A i \in Sessions(c) :
        sess[c][i].nproc = IF sess[c][i].pc \in {"running", "exited"} THEN 1 ELSE 0
C22_Witness ==
    \E c \in Conns : \E i, j \in Sessions(c) :
        /\ sess[c][i].strategy = "script" /\ sess[c][i].pc = "exited"
        /\ sess[c][i].nproc = 1
        /\ sess[c][j].pc \in {"unsupported", "failed"} /\ sess[c][j].nproc = 0

\* C23: frame dispatch: the first well-formed frame that carries a flow
\* identifier creates the session, whatever else it carries; every later
\* frame tagged input is forwarded into the relay of each running process
\* of the connection; an input frame received while a handler run is still
\* launching is not buffered: the process starts with nothing written to it.
C23_FrameDispatch ==
    [][\A c \in Conns :
          /\ Received(c) =>
                /\ (last'[c].ok /\ last'[c].provider # "" /\ sess[c] = <<>>) =>
                       Len(sess'[c]) = 1
                /\ \A i \in Sessions(c) :
                       (last'[c].ok /\ last'[c].type = "input"
                          /\ sess[c][i].pc = "running") =>
                           sess'[c][i].stdin = Append(sess[c][i].stdin, last'[c].data)
          /\ \A i \in Sessions(c) :
                Launching(c, i) => sess'[c][i].stdin = <<>>]_vars

\* C24: a well-formed frame with neither a provider nor a type sends no
\* frame, starts no handler run and no process, does not close the socket
\* and leaves the connection as it was; and the error frame "provider must
\* be specified" is sent in no reachable state.
C24_EmptyFrameStep ==
    \A c \in Conns :
        (Received(c) /\ last'[c] = EmptyFrame) =>
            /\ out'[c] = out[c] /\ sess'[c] = sess[c] /\ sock'[c] = sock[c]
            /\ timers'[c] = timers[c] /\ closeCalls'[c] = closeCalls[c]
C24_NoProviderErrorNeverSent ==
    \A c \in Conns : \A k \in OutIdx(c) : out[c][k].msg # "no-provider"
C24_EmptyFrameIgnored == [][C24_EmptyFrameStep]_vars /\ []C24_NoProviderErrorNeverSent
C24_Witness ==
    \E c \in Conns :
        /\ recv[c] = 1 /\ last[c] = EmptyFrame
        /\ IsOpen(c) /\ sess[c] = <<>> /\ out[c] = <<>> /\ closeCalls[c] = 0

\* C25: pollCount never exceeds maxPolls; at most maxPolls poll requests are
\* issued between two calls of startLinking/reset; and when a timer runs
\* pollLinkStatus in state 'qr' with pollCount = maxPolls, the state becomes
\* 'error' (timeout), no request is issued and no timer is set.
C25_TimeoutStep ==
    (env'.timers = env.timers - 1 /\ env'.mounted = env.mounted
       /\ linker.state = "qr" /\ linker.pollCount = maxPolls) =>
        /\ linker'.state = "error" /\ linker'.errorMsg = "timeout"
        /\ env'.polls = env.polls /\ ghost'.issued = ghost.issued
C25_WithinLimit ==
    linker.pollCount <= maxPolls /\ ghost.issued <= maxPolls
C25_PollLimit == [][C25_TimeoutStep]_vars /\ []C25_WithinLimit
C25_Witness ==
    /\ linker.state = "error" /\ linker.errorMsg = "timeout"
    /\ linker.pollCount = maxPolls /\ ghost.issued = maxPolls
    /\ env.polls = 0 /\ env.timers = 0

\* C26: at most one poll chain is live at any time: the pending poll timers
\* and the poll requests in flight of the component are together at most one.
C26_OnePollChain == env.timers + env.polls <= 1

\* C27: after close() (reset() and removal) the component stays in state
\* 'idle' with pollCount 0, no timer handle and no pending timer: a response
\* that was in flight cannot change the state or schedule a timer.
C27_QuietAfterReset ==
    ghost.closed =>
        /\ linker.state = "idle" /\ linker.pollCount = 0
        /\ linker.pollTimer = "null" /\ env.timers = 0

\* C28: a poll request is issued only by a run of pollLinkStatus that finds
\* the state 'qr'; 'success' is entered only from 'qr', by a poll response;
\* 'success' and 'error' are left only by startLinking (to 'loading') or
\* reset (to 'idle').
C28_StateDiscipline ==
    [][/\ env'.polls > env.polls => linker'.state = "qr"
       /\ (linker'.state = "success" /\ linker.state # "success") =>
              (linker.state = "qr" /\ env'.polls = env.polls - 1)
       /\ (linker.state \in {"success", "error"} /\ linker'.state # linker.state) =>
              \/ linker'.state = "loading" /\ ghost'.calls = ghost.calls + 1
              \/ linker'.state = "idle" /\ ghost'.closed]_vars

\* C29: the continuation of startLinking that completes a start request
\* sets the state to 'qr' if the response is successful and carries a QR
\* image, and to 'error' otherwise; the state is 'loading' only while a
\* start request is in flight; and a poll chain is begun (a poll request
\* issued by something other than a timer) only in the step that enters 'qr'
\* from another state.
C29_StartStep ==
    /\ \A r \in StartOutcomes :
          StartResponse(r) =>
              /\ linker'.state = IF r = "ok" THEN "qr" ELSE "error"
              /\ r = "ok" <=> linker'.qrDataUrl # ""
              /\ r # "ok" <=> linker'.errorMsg # ""
    /\ (env'.polls > env.polls /\ env'.timers = env.timers) =>
          /\ linker.state # "qr" /\ linker'.state = "qr"
          /\ env'.starts = env.starts - 1
C29_LoadingOnlyInFlight == linker.state = "loading" => env.starts > 0
C29_StartCompletes == [][C29_StartStep]_vars /\ []C29_LoadingOnlyInFlight
C29_Witness ==
    /\ ghost.calls = 2 /\ env.starts = 0 /\ linker.state = "qr"
    /\ linker.qrDataUrl = "qr" /\ linker.pollCount = 1 /\ env.polls >= 1

====
